---- MODULE Spec2Model ----
(***************************************************************************)
(* UAV strategic deconfliction engine (mcd-dd/UAV_Deconfliction).          *)
(*                                                                         *)
(* Units of the model (all values are integers):                           *)
(*   Time       milliseconds since the start of the mission log            *)
(*   Latitude   1e-5 degree, offset from the reference latitude 30.25 N    *)
(*   Longitude  1e-5 degree, offset from the reference longitude 119.95 W  *)
(*   Altitude   millimetres                                                *)
(*   distances  millimetres                                                *)
(* A float of the program is the integer nearest below it in these units.  *)
(***************************************************************************)
EXTENDS Integers, Sequences, FiniteSets, TLC

VARIABLES df, op, args, ret, exc, primary_waypoints, other_waypoints, calls, cli

vars == <<df, op, args, ret, exc, primary_waypoints, other_waypoints, calls, cli>>

(***************************************************************************)
(* Bounds of the model.                                                    *)
(***************************************************************************)
MaxPoints == 3

MaxRows == 3

\* rows of a dataset that is queried several times
MaxSessionRows == 2

\* core calls made on one dataset
MaxCalls == 2

\* prompts answered in one run of the command line tool
MaxPrompts == 2

(***************************************************************************)
(* Arithmetic helpers.                                                     *)
(***************************************************************************)
Abs(x) ==
    IF x < 0 THEN -x ELSE x

Max(a, b) ==
    IF a >= b THEN a ELSE b

\* np.ceil(a / b) for b > 0
Ceil(a, b) ==
    -((-a) \div b)

RECURSIVE SqrtIter(_, _)
SqrtIter(s, r) ==
    LET nxt == (r + s \div r) \div 2
    IN  IF nxt >= r THEN r ELSE SqrtIter(s, nxt)

\* math.sqrt, rounded down to the millimetre; the iteration starts above the
\* root, which is at most 46340 for a 32-bit value
Sqrt(s) ==
    IF s <= 0 THEN 0 ELSE SqrtIter(s, IF s > 46340 THEN 46340 ELSE s)

RECURSIVE SumSeq(_)
SumSeq(s) ==
    IF s = <<>> THEN 0 ELSE Head(s) + SumSeq(Tail(s))

RECURSIVE Flatten(_)
Flatten(ss) ==
    IF ss = <<>> THEN <<>> ELSE Head(ss) \o Flatten(Tail(ss))

(***************************************************************************)
(* Waypoint shapes.                                                        *)
(***************************************************************************)
\* a row of the DataFrame / an "other waypoint" dict
Row(id, t, lat, lon, alt) ==
    [DroneID |-> id, Time |-> t, Latitude |-> lat, Longitude |-> lon, Altitude |-> alt]

\* (row["Time"], row["Latitude"], row["Longitude"], row["Altitude"])
WpTuple(row) ==
    <<row.Time, row.Latitude, row.Longitude, row.Altitude>>

(***************************************************************************)
(* engine/interpolation.py                                                 *)
(***************************************************************************)
n_steps_strict(dt, step_seconds) ==
    Max(1, dt \div step_seconds)

\* n_steps = max(1, int(np.ceil(dt / step_seconds)))
n_steps(dt, step_seconds) ==
    Max(1, Ceil(dt, step_seconds))

Lerp_next_fraction(v0, v1, k, n) ==
    v0 + ((k + 1) * (v1 - v0)) \div n

\* v0 + frac * (v1 - v0) with frac = k / n
Lerp(v0, v1, k, n) ==
    v0 + (k * (v1 - v0)) \div n

segment_skipped_negative_only(dt) ==
    dt < 0

\* if dt <= 0: continue
segment_skipped(dt) ==
    dt <= 0

\* the samples the inner loop appends for the segment (w0, w1)
segment_samples(w0, w1, step_seconds) ==
    LET dt == w1.Time - w0.Time
        n  == n_steps(dt, step_seconds)
    IN  IF segment_skipped(dt) THEN <<>>
        ELSE [j \in 1..n |->
                <<Lerp(w0.Time, w1.Time, j - 1, n),
                  Lerp(w0.Latitude, w1.Latitude, j - 1, n),
                  Lerp(w0.Longitude, w1.Longitude, j - 1, n),
                  Lerp(w0.Altitude, w1.Altitude, j - 1, n)>>]

interpolate_raises_single_waypoint(df_drone, step_seconds) ==
    step_seconds > 0 /\ Len(df_drone) < 2

interpolate_raises(df_drone, step_seconds) ==
    step_seconds > 0 /\ Len(df_drone) = 0

interpolate_trajectory_no_final(df_drone, step_seconds) ==
    IF step_seconds <= 0 THEN [i \in 1..Len(df_drone) |-> WpTuple(df_drone[i])]
    ELSE IF Len(df_drone) < 2 THEN <<WpTuple(df_drone[1])>>
    ELSE Flatten([i \in 1..(Len(df_drone) - 1) |->
                    segment_samples(df_drone[i], df_drone[i + 1], step_seconds)])

interpolate_trajectory_default_step(df_drone, step_seconds) ==
    LET step == IF step_seconds <= 0 THEN 500 ELSE step_seconds
    IN  IF Len(df_drone) < 2 THEN [i \in 1..Len(df_drone) |-> WpTuple(df_drone[i])]
        ELSE Flatten([i \in 1..(Len(df_drone) - 1) |->
                        segment_samples(df_drone[i], df_drone[i + 1], step)])
             \o <<WpTuple(df_drone[Len(df_drone)])>>

\* the list interpolate_trajectory returns when it does not raise
interpolate_trajectory(df_drone, step_seconds) ==
    IF step_seconds <= 0 THEN [i \in 1..Len(df_drone) |-> WpTuple(df_drone[i])]
    ELSE IF Len(df_drone) < 2 THEN <<WpTuple(df_drone[1])>>
    ELSE Flatten([i \in 1..(Len(df_drone) - 1) |->
                    segment_samples(df_drone[i], df_drone[i + 1], step_seconds)])
         \o <<WpTuple(df_drone[Len(df_drone)])>>

(***************************************************************************)
(* utils/geo.py.  Distances are local to the reference point: a degree of  *)
(* latitude or longitude has the length it has at 30.25 N on the body the  *)
(* formula uses (WGS-84 ellipsoid for geopy, the sphere for haversine).    *)
(***************************************************************************)
\* radius_earth_m * pi / 180: metres per degree of latitude on the sphere
haversine_lat_m_per_deg == 111195

\* the same along the parallel 30.25 N of the sphere
haversine_lon_m_per_deg == 96054

\* metres per degree of latitude at 30.25 N on the WGS-84 ellipsoid
geodesic_lat_m_per_deg == 110857

\* metres per degree of longitude at 30.25 N on the WGS-84 ellipsoid
geodesic_lon_m_per_deg == 96244

\* latitude limits of geopy, as offsets from 30.25 N
min_valid_lat == -12025000

max_valid_lat == 5975000

haversine_meters(lat1, lon1, lat2, lon2) ==
    LET dn == (Abs(lat2 - lat1) * haversine_lat_m_per_deg) \div 100
        de == (Abs(lon2 - lon1) * haversine_lon_m_per_deg) \div 100
    IN  Sqrt(dn * dn + de * de)

\* geodesic((lat1, lon1), (lat2, lon2)).meters
geodesic_meters(lat1, lon1, lat2, lon2) ==
    LET dn == (Abs(lat2 - lat1) * geodesic_lat_m_per_deg) \div 100
        de == (Abs(lon2 - lon1) * geodesic_lon_m_per_deg) \div 100
    IN  Sqrt(dn * dn + de * de)

\* geopy raises ValueError for a latitude outside [-90, 90]
geodesic_raises(lat1, lat2) ==
    \E l \in {lat1, lat2} : l < min_valid_lat \/ l > max_valid_lat

safe_geodesic_meters_no_fallback(lat1, lon1, lat2, lon2) ==
    geodesic_meters(lat1, lon1, lat2, lon2)

\* try: return geodesic(...).meters / except Exception: return haversine_meters(...)
safe_geodesic_meters(lat1, lon1, lat2, lon2) ==
    IF geodesic_raises(lat1, lat2)
    THEN haversine_meters(lat1, lon1, lat2, lon2)
    ELSE geodesic_meters(lat1, lon1, lat2, lon2)

dist_3d_horizontal_only(plat, plon, palt, o) ==
    safe_geodesic_meters(plat, plon, o.Latitude, o.Longitude)

\* math.sqrt(horiz_dist**2 + alt_diff**2)
dist_3d(plat, plon, palt, o) ==
    LET horiz_dist == safe_geodesic_meters(plat, plon, o.Latitude, o.Longitude)
        alt_diff   == Abs(palt - o.Altitude)
    IN  Sqrt(horiz_dist * horiz_dist + alt_diff * alt_diff)

(***************************************************************************)
(* engine/temporal.py                                                      *)
(***************************************************************************)
in_time_window_absolute(o_time, p_time, time_window) ==
    Abs(o_time - p_time) <= Abs(time_window)

in_time_window_open(o_time, p_time, time_window) ==
    o_time > p_time - time_window /\ o_time < p_time + time_window

\* (other_paths["Time"] >= p_time - time_window) & (... <= p_time + time_window)
in_time_window(o_time, p_time, time_window) ==
    o_time >= p_time - time_window /\ o_time <= p_time + time_window

\* the records the inner loop appends for one primary row
temporal_row_violations(prow, other_paths, time_window, min_distance_meters) ==
    LET window_df == SelectSeq(other_paths,
                        LAMBDA o : in_time_window(o.Time, prow.Time, time_window))
        checked   == [j \in 1..Len(window_df) |->
                        <<WpTuple(prow), window_df[j],
                          dist_3d(prow.Latitude, prow.Longitude, prow.Altitude, window_df[j])>>]
    IN  SelectSeq(checked, LAMBDA v : v[3] < min_distance_meters)

temporal_check_df_all_rows(d, primary_id, time_window_sec, min_distance_meters) ==
    LET primary_path == SelectSeq(d, LAMBDA r : r.DroneID = primary_id)
    IN  IF primary_path = <<>> THEN <<>>
        ELSE Flatten([i \in 1..Len(primary_path) |->
                        temporal_row_violations(primary_path[i], d,
                                                time_window_sec, min_distance_meters)])

temporal_check_df(d, primary_id, time_window_sec, min_distance_meters) ==
    LET primary_path == SelectSeq(d, LAMBDA r : r.DroneID = primary_id)
        other_paths  == SelectSeq(d, LAMBDA r : r.DroneID # primary_id)
    IN  IF primary_path = <<>> \/ other_paths = <<>> THEN <<>>
        ELSE Flatten([i \in 1..Len(primary_path) |->
                        temporal_row_violations(primary_path[i], other_paths,
                                                time_window_sec, min_distance_meters)])

(***************************************************************************)
(* engine/spatial.py                                                       *)
(***************************************************************************)
meters_per_degree == 111320

TIME_TOLERANCE_SEC == 100

\* cos(30.25 deg) * 1e5
cos_reference_latitude == 86384

\* math.cos(math.radians(lat_ref)) * 1e5, linear around the reference latitude
cos_ref_of(lat_ref) ==
    cos_reference_latitude - (lat_ref * 879 + 50000) \div 100000

\* (lon * meters_per_degree * cos_ref, lat * meters_per_degree), in millimetres
project(lat, lon, cos_ref) ==
    <<(lon * (((meters_per_degree \div 10) * cos_ref) \div 1000)) \div 1000,
      (lat * meters_per_degree) \div 100>>

\* (tree, lat_ref); the tree is the sequence of projected points, <<>> for None
build_spatial_index(other_wps) ==
    IF other_wps = <<>> THEN [tree |-> <<>>, lat_ref |-> 0]
    ELSE LET lat_ref == SumSeq([i \in 1..Len(other_wps) |-> other_wps[i].Latitude])
                            \div Len(other_wps)
         IN  [tree |-> [i \in 1..Len(other_wps) |->
                          project(other_wps[i].Latitude, other_wps[i].Longitude,
                                  cos_ref_of(lat_ref))],
              lat_ref |-> lat_ref]

query_ball_point_outer_shell(tree, p, r) ==
    LET d2(i) ==
            (tree[i][1] - p[1]) * (tree[i][1] - p[1])
              + (tree[i][2] - p[2]) * (tree[i][2] - p[2])
        inside(i) ==
            d2(i) <= r * r /\ (r > 10000 => d2(i) >= (r - 10000) * (r - 10000))
        F[i \in 0..Len(tree)] ==
            IF i = 0 THEN <<>>
            ELSE IF inside(i) THEN Append(F[i - 1], i) ELSE F[i - 1]
    IN  F[Len(tree)]

\* tree.query_ball_point([px, py], r): the indices within the closed ball
query_ball_point(tree, p, r) ==
    LET inside(i) ==
            (tree[i][1] - p[1]) * (tree[i][1] - p[1])
              + (tree[i][2] - p[2]) * (tree[i][2] - p[2]) <= r * r
        F[i \in 0..Len(tree)] ==
            IF i = 0 THEN <<>>
            ELSE IF inside(i) THEN Append(F[i - 1], i) ELSE F[i - 1]
    IN  F[Len(tree)]

within_time_tolerance_none(p_time, o_time) ==
    TRUE

\* not (abs((p_time - o_time).total_seconds()) > TIME_TOLERANCE_SEC)
within_time_tolerance(p_time, o_time) ==
    ~(Abs(p_time - o_time) > TIME_TOLERANCE_SEC)

\* the records the inner loop appends for one primary waypoint
spatial_wp_violations(p_wp, other_wps, index, min_distance_meters) ==
    LET p              == project(p_wp[2], p_wp[3], cos_ref_of(index.lat_ref))
        candidate_idxs == query_ball_point(index.tree, p, min_distance_meters)
        timely         == SelectSeq(candidate_idxs,
                            LAMBDA i : within_time_tolerance(p_wp[1], other_wps[i].Time))
        checked        == [j \in 1..Len(timely) |->
                            <<p_wp, other_wps[timely[j]],
                              dist_3d(p_wp[2], p_wp[3], p_wp[4], other_wps[timely[j]])>>]
    IN  SelectSeq(checked, LAMBDA v : v[3] < min_distance_meters)

spatial_check_with_index_deduplicated(primary_wps, other_wps, min_distance_meters) ==
    LET index == build_spatial_index(other_wps)
        all   == Flatten([i \in 1..Len(primary_wps) |->
                            spatial_wp_violations(primary_wps[i], other_wps, index,
                                                  min_distance_meters)])
        F[k \in 0..Len(all)] ==
            IF k = 0 THEN <<>>
            ELSE IF \E e \in 1..(k - 1) : all[e] = all[k] THEN F[k - 1]
            ELSE Append(F[k - 1], all[k])
    IN  IF index.tree = <<>> THEN <<>> ELSE F[Len(all)]

\* for p_wp in primary_wps: ... violations.append((p_wp, o_wp, dist_3d))
spatial_check_with_index(primary_wps, other_wps, min_distance_meters) ==
    LET index == build_spatial_index(other_wps)
    IN  IF index.tree = <<>> THEN <<>>
        ELSE Flatten([i \in 1..Len(primary_wps) |->
                        spatial_wp_violations(primary_wps[i], other_wps, index,
                                              min_distance_meters)])

(***************************************************************************)
(* engine/conflict_engine.py                                               *)
(***************************************************************************)
\* rows.sort_values("Time"): the sort is not stable, so rows of equal Time
\* may come out in either order; S is the set of indices still to place
RECURSIVE sort_values_from(_, _)
sort_values_from(rows, S) ==
    IF S = {} THEN {<<>>}
    ELSE UNION {{<<rows[i]>> \o t : t \in sort_values_from(rows, S \ {i})} :
                    i \in {i \in S : \A j \in S : rows[i].Time <= rows[j].Time}}

sort_values(rows) ==
    sort_values_from(rows, DOMAIN rows)

\* one outcome of sort_values("Time") for the rows of every drone in ids
RECURSIVE sorted_groups(_, _)
sorted_groups(d, ids) ==
    IF ids = {} THEN {<<>>}
    ELSE LET id == CHOOSE x \in ids : TRUE
         IN  {(id :> g) @@ f :
                g \in sort_values(SelectSeq(d, LAMBDA r : r.DroneID = id)),
                f \in sorted_groups(d, ids \ {id})}

\* group.sort_values("Time") for the rows of one drone, under the outcome ord
group_sorted(d, ord, drone_id) ==
    ord[drone_id]

\* the keys df.groupby("DroneID") iterates over, ascending
RECURSIVE SortedIds(_)
SortedIds(ids) ==
    IF ids = {} THEN <<>>
    ELSE LET m == CHOOSE x \in ids : \A y \in ids : x <= y
         IN  <<m>> \o SortedIds(ids \ {m})

group_keys_with_primary(d, primary_id) ==
    SortedIds({d[i].DroneID : i \in 1..Len(d)})

\* for drone_id, group in df.groupby("DroneID"): if drone_id == primary_id: continue
group_keys(d, primary_id) ==
    SortedIds({d[i].DroneID : i \in 1..Len(d)} \ {primary_id})

\* the dicts appended to other_waypoints for one drone
drone_waypoints(rows, drone_id, interp_step_sec) ==
    IF interp_step_sec > 0
    THEN LET samples == interpolate_trajectory(rows, interp_step_sec)
         IN  [i \in 1..Len(samples) |->
                Row(drone_id, samples[i][1], samples[i][2], samples[i][3], samples[i][4])]
    ELSE rows

collect_other_waypoints(d, ord, primary_id, interp_step_sec) ==
    LET keys == group_keys(d, primary_id)
    IN  Flatten([k \in 1..Len(keys) |->
                    drone_waypoints(group_sorted(d, ord, keys[k]), keys[k], interp_step_sec)])

returns_early_never(primary_df) ==
    FALSE

\* if primary_df.empty: return [], []
returns_early(primary_df) ==
    primary_df = <<>>

collect_primary_waypoints(primary_df, interp_step_sec) ==
    IF interp_step_sec > 0
    THEN interpolate_trajectory(primary_df, interp_step_sec)
    ELSE [i \in 1..Len(primary_df) |-> WpTuple(primary_df[i])]

check_primary_mission_conflicts_deduplicated(d, ord, primary_id, min_distance_meters, time_window_sec, interp_step_sec) ==
    LET others     == collect_other_waypoints(d, ord, primary_id, interp_step_sec)
        primary_df == group_sorted(d, ord, primary_id)
        primary    == collect_primary_waypoints(primary_df, interp_step_sec)
        spatial    == spatial_check_with_index(primary, others, min_distance_meters)
        temporal   == temporal_check_df(d, primary_id, time_window_sec, min_distance_meters)
    IN  IF returns_early(primary_df)
        THEN [exc |-> "None", other_waypoints |-> others, primary_waypoints |-> <<>>,
              spatial_conflicts |-> <<>>, temporal_conflicts |-> <<>>]
        ELSE [exc |-> "None", other_waypoints |-> others, primary_waypoints |-> primary,
              spatial_conflicts |-> spatial,
              temporal_conflicts |->
                  SelectSeq(temporal, LAMBDA t :
                      \A i \in DOMAIN spatial :
                          <<spatial[i][1], spatial[i][2]>> # <<t[1], t[2]>>)]

\* the locals and the result of one call, the groups sorted as in ord
check_primary_mission_conflicts(d, ord, primary_id, min_distance_meters, time_window_sec, interp_step_sec) ==
    LET others     == collect_other_waypoints(d, ord, primary_id, interp_step_sec)
        primary_df == group_sorted(d, ord, primary_id)
    IN  IF returns_early(primary_df)
        THEN [exc |-> "None", other_waypoints |-> others, primary_waypoints |-> <<>>,
              spatial_conflicts |-> <<>>, temporal_conflicts |-> <<>>]
        ELSE IF interpolate_raises(primary_df, interp_step_sec)
        THEN [exc |-> "IndexError", other_waypoints |-> others, primary_waypoints |-> <<>>,
              spatial_conflicts |-> <<>>, temporal_conflicts |-> <<>>]
        ELSE LET primary == collect_primary_waypoints(primary_df, interp_step_sec)
             IN  [exc |-> "None", other_waypoints |-> others, primary_waypoints |-> primary,
                  spatial_conflicts |->
                      spatial_check_with_index(primary, others, min_distance_meters),
                  temporal_conflicts |->
                      temporal_check_df(d, primary_id, time_window_sec, min_distance_meters)]

mission_status_any_list(spatial_conflicts, temporal_conflicts) ==
    IF spatial_conflicts = <<>> \/ temporal_conflicts = <<>>
    THEN "clear" ELSE "conflict detected"

\* "clear" if not spatial_conflicts and not temporal_conflicts else "conflict detected"
mission_status(spatial_conflicts, temporal_conflicts) ==
    IF spatial_conflicts = <<>> /\ temporal_conflicts = <<>>
    THEN "clear" ELSE "conflict detected"

(***************************************************************************)
(* Input domains.                                                          *)
(***************************************************************************)
DroneIds ==
    {1, 2, 3}

PrimaryIds ==
    {1, 2}

SeqsUpTo(S, n) ==
    UNION {[1..m -> S] : m \in 0..n}

RowsOf(ids, times, positions) ==
    {Row(id, t, p[1], p[2], p[3]) : id \in ids, t \in times, p \in positions}

\* resampler: (Latitude, Longitude, Altitude) and Time of the logged rows
TrajPositions ==
    {<<0, 0, 0>>, <<9, 0, 0>>, <<0, 10, 3000>>}

TrajTimes ==
    {0, 700, 1200}

StepValues ==
    {-500, 0, 500, 1000}

\* temporal finder
TemporalPositions ==
    {<<0, 0, 0>>, <<9, 0, 3000>>}

TemporalTimes ==
    {0, 1000, 10000}

TemporalWindows ==
    {-1000, 1000, 15000}

TemporalMinDistances ==
    {10000, 12000}

\* temporal finder on drones stacked in altitude
AltitudePositions ==
    {<<0, 0, 0>>, <<0, 0, 2000>>, <<1, 0, 10000>>}

AltitudeTimes ==
    {0, 1000}

\* spatial finder
SpatialPositions ==
    {<<0, 0, 0>>, <<9, 0, 0>>, <<0, 10, 3000>>}

SpatialTimes ==
    {0, 100, 200}

SpatialMinDistances ==
    {5000, 10000}

\* orchestrator
EnginePositions ==
    {<<0, 0, 0>>, <<9, 0, 3000>>}

EngineTimes ==
    {0, 1000}

EngineWindows ==
    {-1000, 1000}

EngineMinDistances ==
    {10000, 12000}

EngineSteps ==
    {0, 500}

InitWith(datasets) ==
    /\ df \in datasets
    /\ op = "none"
    /\ args = <<>>
    /\ ret = <<>>
    /\ exc = "None"
    /\ primary_waypoints = <<>>
    /\ other_waypoints = <<>>
    /\ calls = 0
    /\ cli = <<>>

rows_of(d, drone_id) ==
    SelectSeq(d, LAMBDA r : r.DroneID = drone_id)

rows_not_of(d, drone_id) ==
    SelectSeq(d, LAMBDA r : r.DroneID # drone_id)

(***************************************************************************)
(* interpolate_trajectory(df_drone, step_seconds) on the rows of one       *)
(* drone, in the order the dataset holds them.                             *)
(***************************************************************************)
InterpolateCall(steps) ==
    /\ calls < MaxCalls
    /\ calls' = calls + 1
    /\ UNCHANGED cli
    /\ \E drone_id \in DroneIds, step \in steps :
        /\ op' = "interpolate_trajectory"
        /\ args' = [drone_id |-> drone_id, step_seconds |-> step]
        /\ IF interpolate_raises(rows_of(df, drone_id), step)
           THEN ret' = <<>> /\ exc' = "IndexError"
           ELSE ret' = interpolate_trajectory(rows_of(df, drone_id), step) /\ exc' = "None"
    /\ UNCHANGED <<df, primary_waypoints, other_waypoints>>

Interpolate(steps) ==
    /\ op = "none"
    /\ InterpolateCall(steps)

InitResample ==
    InitWith(SeqsUpTo(RowsOf({1}, TrajTimes, TrajPositions), MaxPoints))

InterpolateTrajectory ==
    Interpolate(StepValues)

NextResample ==
    InterpolateTrajectory

SpecResample ==
    InitResample /\ [][NextResample]_vars

(***************************************************************************)
(* temporal_check_df(df, primary_id, time_window_sec, min_distance_meters) *)
(***************************************************************************)
InitTemporal ==
    InitWith(SeqsUpTo(RowsOf(DroneIds, TemporalTimes, TemporalPositions), MaxRows))

TemporalCheck ==
    /\ op = "none"
    /\ \E primary_id \in PrimaryIds, w \in TemporalWindows, m \in TemporalMinDistances :
        /\ op' = "temporal_check_df"
        /\ args' = [primary_id |-> primary_id, time_window_sec |-> w,
                    min_distance_meters |-> m]
        /\ ret' = temporal_check_df(df, primary_id, w, m)
        /\ exc' = "None"
    /\ calls' = calls + 1
    /\ UNCHANGED cli
    /\ UNCHANGED <<df, primary_waypoints, other_waypoints>>

NextTemporal ==
    TemporalCheck

SpecTemporal ==
    InitTemporal /\ [][NextTemporal]_vars

(***************************************************************************)
(* temporal_check_df on datasets whose drones differ mostly in altitude.   *)
(***************************************************************************)
InitAltitude ==
    InitWith(SeqsUpTo(RowsOf(DroneIds, AltitudeTimes, AltitudePositions), MaxRows))

NextAltitude ==
    TemporalCheck

SpecAltitude ==
    InitAltitude /\ [][NextAltitude]_vars

(***************************************************************************)
(* spatial_check_with_index(primary_waypoints, other_waypoints,            *)
(* min_distance_meters) on the raw rows of the dataset.                    *)
(***************************************************************************)
InitSpatial ==
    InitWith(SeqsUpTo(RowsOf(DroneIds, SpatialTimes, SpatialPositions), MaxRows))

SpatialCheck ==
    /\ op = "none"
    /\ \E primary_id \in PrimaryIds, m \in SpatialMinDistances :
        LET primary == [i \in 1..Len(rows_of(df, primary_id)) |->
                            WpTuple(rows_of(df, primary_id)[i])]
            others  == rows_not_of(df, primary_id)
        IN  /\ op' = "spatial_check_with_index"
            /\ args' = [primary_id |-> primary_id, min_distance_meters |-> m]
            /\ primary_waypoints' = primary
            /\ other_waypoints' = others
            /\ ret' = spatial_check_with_index(primary, others, m)
            /\ exc' = "None"
    /\ calls' = calls + 1
    /\ UNCHANGED cli
    /\ UNCHANGED df

NextSpatial ==
    SpatialCheck

SpecSpatial ==
    InitSpatial /\ [][NextSpatial]_vars

(***************************************************************************)
(* The spatial finder on two drones logged 0.1 s apart at points 4.4 m     *)
(* apart, where rows repeat and one waypoint matches several samples.      *)
(***************************************************************************)
RepeatPositions ==
    {<<0, 0, 0>>, <<4, 0, 0>>}

RepeatTimes ==
    {0, 100}

InitSpatialRepeat ==
    InitWith(SeqsUpTo(RowsOf(PrimaryIds, RepeatTimes, RepeatPositions), MaxRows))

SpecSpatialRepeat ==
    InitSpatialRepeat /\ [][NextSpatial]_vars

(***************************************************************************)
(* The orchestrator and the public query interface.                        *)
(***************************************************************************)
Init ==
    InitWith(SeqsUpTo(RowsOf(DroneIds, EngineTimes, EnginePositions), MaxRows))

\* the pair of lists the last engine call returned, <<>> when there is none
last_lists ==
    IF op = "check_primary_mission_conflicts" /\ exc = "None" THEN ret
    ELSE IF op = "query_mission_status" /\ exc = "None"
    THEN <<ret.spatial_conflicts, ret.temporal_conflicts>>
    ELSE <<>>

returned_lists_memoized(previous, computed) ==
    IF previous # <<>> THEN previous ELSE computed

\* return spatial_conflicts, temporal_conflicts: the lists built in this call
returned_lists(previous, computed) ==
    computed

df_after_sort_values_inplace(d, ord) ==
    Flatten([k \in 1..Len(SortedIds(DOMAIN ord)) |-> ord[SortedIds(DOMAIN ord)[k]]])

\* group.sort_values("Time") and df[...].sort_values("Time") return new
\* frames: the rows of df stay as they are
df_after_sort_values(d, ord) ==
    d

EvaluateCall(mins, windows, steps) ==
    /\ calls < MaxCalls
    /\ calls' = calls + 1
    /\ UNCHANGED cli
    /\ \E ord \in sorted_groups(df, DroneIds), primary_id \in PrimaryIds, m \in mins,
          w \in windows, step \in steps :
        \E r \in {check_primary_mission_conflicts(df, ord, primary_id, m, w, step)} :
            /\ op' = "check_primary_mission_conflicts"
            /\ args' = [primary_id |-> primary_id, min_distance_meters |-> m,
                        time_window_sec |-> w, interp_step_sec |-> step]
            /\ primary_waypoints' = r.primary_waypoints
            /\ other_waypoints' = r.other_waypoints
            /\ exc' = r.exc
            /\ ret' = IF r.exc = "None"
                      THEN returned_lists(last_lists,
                                          <<r.spatial_conflicts, r.temporal_conflicts>>)
                      ELSE <<>>
            /\ df' = df_after_sort_values(df, ord)

Evaluate ==
    /\ op = "none"
    /\ EvaluateCall(EngineMinDistances, EngineWindows, EngineSteps)

QueryMissionStatusCall(mins, windows, steps) ==
    /\ calls < MaxCalls
    /\ calls' = calls + 1
    /\ UNCHANGED cli
    /\ \E ord \in sorted_groups(df, DroneIds), primary_id \in PrimaryIds, m \in mins,
          w \in windows, step \in steps :
        \E r \in {check_primary_mission_conflicts(df, ord, primary_id, m, w, step)} :
            /\ op' = "query_mission_status"
            /\ args' = [primary_id |-> primary_id, min_distance_meters |-> m,
                        time_window_sec |-> w, interp_step_sec |-> step]
            /\ primary_waypoints' = r.primary_waypoints
            /\ other_waypoints' = r.other_waypoints
            /\ exc' = r.exc
            /\ ret' = IF r.exc = "None"
                      THEN LET lists == returned_lists(last_lists,
                                            <<r.spatial_conflicts, r.temporal_conflicts>>)
                           IN  [status |-> mission_status(lists[1], lists[2]),
                                spatial_conflicts |-> lists[1],
                                temporal_conflicts |-> lists[2]]
                      ELSE <<>>
            /\ df' = df_after_sort_values(df, ord)

QueryMissionStatus ==
    /\ op = "none"
    /\ QueryMissionStatusCall(EngineMinDistances, EngineWindows, EngineSteps)

ResampleDrone ==
    Interpolate(StepValues)

Next ==
    \/ Evaluate
    \/ QueryMissionStatus
    \/ ResampleDrone

Spec ==
    Init /\ [][Next]_vars

(***************************************************************************)
(* safe_geodesic_meters(lat1, lon1, lat2, lon2) around the reference point *)
(* and around the latitudes +90 and -90, where geopy starts to refuse.     *)
(* Points beyond a pole are taken on one meridian, where the haversine     *)
(* distance is the length of the latitude difference on the sphere.        *)
(***************************************************************************)
GeoLatitudes ==
    {min_valid_lat - 4, min_valid_lat, 0, max_valid_lat, max_valid_lat + 4}

GeoLongitudes ==
    {0, 10}

GeoDeltas ==
    {-9, -4, 0, 4, 9}

InitDistance ==
    InitWith({<<>>})

SafeGeodesicMeters ==
    /\ op = "none"
    /\ \E lat1 \in GeoLatitudes, lon1 \in GeoLongitudes, dlat \in GeoDeltas, dlon \in GeoDeltas :
        /\ geodesic_raises(lat1, lat1 + dlat) => dlon = 0
        /\ op' = "safe_geodesic_meters"
        /\ args' = [lat1 |-> lat1, lon1 |-> lon1, lat2 |-> lat1 + dlat, lon2 |-> lon1 + dlon]
        /\ ret' = safe_geodesic_meters(lat1, lon1, lat1 + dlat, lon1 + dlon)
        /\ exc' = "None"
    /\ calls' = calls + 1
    /\ UNCHANGED cli
    /\ UNCHANGED <<df, primary_waypoints, other_waypoints>>

NextDistance ==
    SafeGeodesicMeters

SpecDistance ==
    InitDistance /\ [][NextDistance]_vars

(***************************************************************************)
(* Several core calls, one after another, on one dataset.                  *)
(***************************************************************************)
SessionMinDistances ==
    {12000}

SessionWindows ==
    {1000}

SessionSteps ==
    {0, 500}

InitSession ==
    InitWith(SeqsUpTo(RowsOf(PrimaryIds, EngineTimes, EnginePositions), MaxSessionRows))

SessionEvaluate ==
    EvaluateCall(SessionMinDistances, SessionWindows, SessionSteps)

SessionQueryMissionStatus ==
    QueryMissionStatusCall(SessionMinDistances, SessionWindows, SessionSteps)

SessionResample ==
    InterpolateCall(SessionSteps)

NextSession ==
    \/ SessionEvaluate
    \/ SessionQueryMissionStatus
    \/ SessionResample

SpecSession ==
    InitSession /\ [][NextSession]_vars

(***************************************************************************)
(* The command line tool: main() loads the workbook named on the command   *)
(* line and then asks for primary ids until told to quit.  cli holds the   *)
(* locals of main(), where it stands, its exit code and how often it has   *)
(* prompted.  A workbook is what read_excel finds: whether                 *)
(* it can be read, its column headers (a name and whether the header has   *)
(* surrounding blanks) and its rows, each with the columns whose cells do  *)
(* not parse.  A text typed at the prompt is a sequence of characters.     *)
(***************************************************************************)
required_cols ==
    {"DroneID", "Time", "Latitude", "Longitude", "Altitude"}

\* df.columns = [str(c).strip() for c in df.columns]
strip_columns(columns) ==
    {c[1] : c \in columns}

load_raises_unreadable_only(file) ==
    ~file.readable

\* read_excel fails, or required_cols - set(df.columns) is not empty
load_raises(file) ==
    \/ ~file.readable
    \/ required_cols \ strip_columns(file.columns) # {}

\* to_datetime / to_numeric with errors="coerce", then dropna
dropna(rows) ==
    SelectSeq(rows, LAMBDA r : r.unparsable = {})

RowKeyLeq(a, b) ==
    \/ a.DroneID < b.DroneID
    \/ a.DroneID = b.DroneID /\ a.Time <= b.Time

RECURSIVE stable_insert(_, _)
stable_insert(sorted, r) ==
    IF sorted = <<>> THEN <<r>>
    ELSE IF RowKeyLeq(sorted[Len(sorted)], r) THEN Append(sorted, r)
    ELSE Append(stable_insert(SubSeq(sorted, 1, Len(sorted) - 1), r), sorted[Len(sorted)])

\* df.sort_values(["DroneID", "Time"]): a lexsort, which keeps ties in order
RECURSIVE sort_by_drone_and_time(_)
sort_by_drone_and_time(rows) ==
    IF rows = <<>> THEN <<>>
    ELSE stable_insert(sort_by_drone_and_time(SubSeq(rows, 1, Len(rows) - 1)),
                       rows[Len(rows)])

\* the frame load_waypoints_from_excel returns when it does not raise
load_waypoints_from_excel(file) ==
    LET kept == dropna(file.rows)
    IN  sort_by_drone_and_time([i \in 1..Len(kept) |-> kept[i].cells])

\* str.strip() for blanks
RECURSIVE strip(_)
strip(s) ==
    IF s = <<>> THEN s
    ELSE IF s[1] = " " THEN strip(Tail(s))
    ELSE IF s[Len(s)] = " " THEN strip(SubSeq(s, 1, Len(s) - 1))
    ELSE s

\* str.lower() on the letters that occur
lower(s) ==
    LET low == [c \in {"Q", "U", "I", "T", "E", "X"} |->
                    CASE c = "Q" -> "q" [] c = "U" -> "u" [] c = "I" -> "i"
                      [] c = "T" -> "t" [] c = "E" -> "e" [] c = "X" -> "x"]
    IN  [i \in 1..Len(s) |-> IF s[i] \in DOMAIN low THEN low[s[i]] ELSE s[i]]

Digits ==
    <<"0", "1", "2", "3", "4", "5", "6", "7", "8", "9">>

\* str.isdigit(): not empty and digits only
isdigit(s) ==
    s # <<>> /\ \A i \in 1..Len(s) : \E d \in 1..10 : Digits[d] = s[i]

\* int(user_input) of a digit string
RECURSIVE int(_)
int(s) ==
    IF s = <<>> THEN 0
    ELSE 10 * int(SubSeq(s, 1, Len(s) - 1))
         + (CHOOSE d \in 0..9 : Digits[d + 1] = s[Len(s)])

is_quit(user_input) ==
    lower(user_input) \in {<<"q", "u", "i", "t">>, <<"e", "x", "i", "t">>}

UnreadableFile ==
    [readable |-> FALSE, columns |-> {}, rows |-> <<>>]

AllColumns ==
    {<<c, FALSE>> : c \in required_cols}

PaddedColumns ==
    {<<c, c = "Time">> : c \in required_cols}

CliTimes ==
    {0, 1000}

CliRows ==
    {[cells |-> r, unparsable |-> {}] : r \in RowsOf(PrimaryIds, CliTimes, {<<0, 0, 0>>})}
    \cup {[cells |-> Row(2, 0, 0, 0, 0), unparsable |-> {"Latitude"}]}

ExcelFiles ==
    {UnreadableFile}
    \cup {[readable |-> TRUE, columns |-> AllColumns \ {c}, rows |-> <<>>] : c \in AllColumns}
    \cup {[readable |-> TRUE, columns |-> cols, rows |-> rows] :
            cols \in {AllColumns, PaddedColumns}, rows \in SeqsUpTo(CliRows, MaxSessionRows)}

UserInputs ==
    {<<"q", "u", "i", "t">>, <<"E", "x", "i", "t", " ">>, <<" ", "1">>, <<"2">>,
     <<"0", "7">>, <<"-", "1">>, <<>>}

CliMinDistances ==
    {10000}

CliWindows ==
    {1000}

CliSteps ==
    {0, 500}

InitCli ==
    /\ df = <<>>
    /\ op = "none"
    /\ args = <<>>
    /\ ret = <<>>
    /\ exc = "None"
    /\ primary_waypoints = <<>>
    /\ other_waypoints = <<>>
    /\ calls = 0
    /\ \E file \in ExcelFiles, m \in CliMinDistances, w \in CliWindows, step \in CliSteps :
        cli = [pc |-> "load", excel_file |-> file, min_distance |-> m,
               time_window_sec |-> w, interp_step_sec |-> step,
               user_input |-> <<>>, prompts |-> 0, exit_code |-> -1]

\* try: df = load_waypoints_from_excel(args.excel_file); except: sys.exit(2)
LoadDataset ==
    /\ cli.pc = "load"
    /\ op' = "load_waypoints_from_excel"
    /\ IF load_raises(cli.excel_file)
       THEN /\ exc' = "ValueError"
            /\ df' = df
            /\ cli' = [cli EXCEPT !.pc = "exited", !.exit_code = 2]
       ELSE /\ exc' = "None"
            /\ df' = load_waypoints_from_excel(cli.excel_file)
            /\ cli' = [cli EXCEPT !.pc = "prompt"]
    /\ UNCHANGED <<args, ret, primary_waypoints, other_waypoints, calls>>

\* user_input = input(...).strip(): the texts that reach the loop body
PromptTexts ==
    {strip(t) : t \in UserInputs}

Prompted(text) ==
    /\ cli.pc = "prompt"
    /\ cli.prompts < MaxPrompts
    /\ text \in PromptTexts

\* if user_input.lower() in ("quit", "exit"): sys.exit(0)
PromptQuit ==
    \E text \in PromptTexts :
        /\ Prompted(text)
        /\ is_quit(text)
        /\ op' = "input"
        /\ cli' = [cli EXCEPT !.pc = "exited", !.exit_code = 0, !.user_input = text,
                              !.prompts = @ + 1]
        /\ UNCHANGED <<df, args, ret, exc, primary_waypoints, other_waypoints, calls>>

\* if not user_input.isdigit(): continue
PromptInvalid ==
    \E text \in PromptTexts :
        /\ Prompted(text)
        /\ ~is_quit(text)
        /\ ~isdigit(text)
        /\ op' = "input"
        /\ cli' = [cli EXCEPT !.user_input = text, !.prompts = @ + 1]
        /\ UNCHANGED <<df, args, ret, exc, primary_waypoints, other_waypoints, calls>>

\* result = query_mission_status(df, primary_id=int(user_input), ...), the
\* summary, and the clean-up of df, which drops nothing from a loaded frame
PromptQuery ==
    \E text \in {t \in PromptTexts : ~is_quit(t) /\ isdigit(t)} :
      \E ord \in sorted_groups(df, DroneIds \cup {int(text)}) :
        /\ Prompted(text)
        /\ \E r \in {check_primary_mission_conflicts(df, ord, int(text), cli.min_distance,
                                                     cli.time_window_sec, cli.interp_step_sec)} :
            /\ op' = "query_mission_status"
            /\ args' = [primary_id |-> int(text), min_distance_meters |-> cli.min_distance,
                        time_window_sec |-> cli.time_window_sec,
                        interp_step_sec |-> cli.interp_step_sec]
            /\ primary_waypoints' = r.primary_waypoints
            /\ other_waypoints' = r.other_waypoints
            /\ exc' = r.exc
            /\ ret' = IF r.exc = "None"
                      THEN [status |-> mission_status(r.spatial_conflicts, r.temporal_conflicts),
                            spatial_conflicts |-> r.spatial_conflicts,
                            temporal_conflicts |-> r.temporal_conflicts]
                      ELSE <<>>
            /\ cli' = IF r.exc = "None"
                      THEN [cli EXCEPT !.user_input = text, !.prompts = @ + 1]
                      ELSE [cli EXCEPT !.user_input = text, !.prompts = @ + 1,
                                       !.pc = "exited", !.exit_code = 1]
        /\ calls' = calls + 1
        /\ df' = df

NextCli ==
    \/ LoadDataset
    \/ PromptQuit
    \/ PromptInvalid
    \/ PromptQuery

SpecCli ==
    InitCli /\ [][NextCli]_vars

(***************************************************************************)
(* Two drones logged with different start times, evaluated with            *)
(* resampling at 0.5 s.                                                    *)
(***************************************************************************)
NearMissTimes ==
    {0, 250, 1000}

NearMissPositions ==
    {<<0, 0, 0>>, <<9, 0, 0>>}

NearMissMinDistances ==
    {5000, 12000}

NearMissWindows ==
    {1000}

NearMissSteps ==
    {500}

\* the rows of drone 1 followed by the rows of drone 2
InitNearMiss ==
    InitWith({p \o o : p \in SeqsUpTo(RowsOf({1}, NearMissTimes, NearMissPositions), MaxSessionRows),
                       o \in SeqsUpTo(RowsOf({2}, NearMissTimes, NearMissPositions), MaxSessionRows)})

NearMissEvaluate ==
    /\ op = "none"
    /\ EvaluateCall(NearMissMinDistances, NearMissWindows, NearMissSteps)

NextNearMiss ==
    NearMissEvaluate

SpecNearMiss ==
    InitNearMiss /\ [][NextNearMiss]_vars

(***************************************************************************)
(* The orchestrator without resampling, where both finders see the logged  *)
(* waypoints, with rows 0.1 s and 1 s apart and windows of 0.1 s and 1 s.  *)
(***************************************************************************)
RawTimes ==
    {0, 100, 1000}

RawWindows ==
    {100, 1000}

RawMinDistances ==
    {12000}

RawSteps ==
    {-500, 0}

InitRaw ==
    InitWith(SeqsUpTo(RowsOf(PrimaryIds, RawTimes, EnginePositions), MaxRows))

RawEvaluate ==
    /\ op = "none"
    /\ EvaluateCall(RawMinDistances, RawWindows, RawSteps)

NextRaw ==
    RawEvaluate

SpecRaw ==
    InitRaw /\ [][NextRaw]_vars

(***************************************************************************)
(* Properties of the resampler.                                            *)
(***************************************************************************)
Count(s, x) ==
    Cardinality({i \in DOMAIN s : s[i] = x})

SameBag(a, b) ==
    /\ Len(a) = Len(b)
    /\ \A i \in DOMAIN a : Count(a, a[i]) = Count(b, a[i])

Front(s) ==
    SubSeq(s, 1, Len(s) - 1)

\* the trajectory the last interpolate_trajectory call was given
input_rows ==
    rows_of(df, args.drone_id)

Resampled ==
    /\ op = "interpolate_trajectory"
    /\ args.step_seconds > 0
    /\ Len(input_rows) >= 2

\* dt of segment i of the trajectory
seg_dt(i) ==
    input_rows[i + 1].Time - input_rows[i].Time

\* C7: for a trajectory of at least 2 waypoints and stepSeconds > 0 the first
\* output element is the first input waypoint and the last output element is
\* the last input waypoint, whatever the timestamps are.
C7_FirstAndLastExact ==
    Resampled =>
        /\ exc = "None"
        /\ ret # <<>>
        /\ ret[1] = WpTuple(input_rows[1])
        /\ ret[Len(ret)] = WpTuple(input_rows[Len(input_rows)])

\* the number of samples the claim gives segment i
seg_count(i) ==
    IF seg_dt(i) > 0 THEN Ceil(seg_dt(i), args.step_seconds) ELSE 0

\* the number of samples emitted before those of segment i
seg_offset(i) ==
    SumSeq([j \in 1..(i - 1) |-> seg_count(j)])

\* v is v0 + (k/n) * (v1 - v0), rounded down to the unit of the model
IsLerp(v, v0, v1, k, n) ==
    /\ n * (v - v0) <= k * (v1 - v0)
    /\ k * (v1 - v0) < n * (v - v0) + n

\* C8: every segment with dt > 0 yields exactly n = ceil(dt / stepSeconds)
\* samples, the k-th being the linear interpolation of time, latitude, longitude
\* and altitude at fraction k/n, so the output has 1 + sum of the n samples.
C8_SegmentSamples ==
    Resampled =>
        /\ Len(ret) = 1 + seg_offset(Len(input_rows))
        /\ \A i \in 1..(Len(input_rows) - 1) : \A k \in 0..(seg_count(i) - 1) :
             \A f \in 1..4 :
                IsLerp(ret[seg_offset(i) + k + 1][f],
                       WpTuple(input_rows[i])[f], WpTuple(input_rows[i + 1])[f],
                       k, seg_count(i))

C8_Witness ==
    /\ Resampled
    /\ Len(input_rows) = 3
    /\ seg_dt(1) > 0
    /\ seg_dt(2) > 0
    /\ seg_count(1) >= 2
    /\ Len(ret) = 1 + seg_count(1) + seg_count(2)

\* C9: a segment with dt <= 0 contributes no sample and raises nothing; the
\* output is the samples of the other segments, each as resampled on its own,
\* followed by the final waypoint.
C9_DegenerateSegmentSkipped ==
    Resampled =>
        /\ exc = "None"
        /\ ret = Flatten([i \in 1..(Len(input_rows) - 1) |->
                            IF seg_dt(i) > 0
                            THEN Front(interpolate_trajectory(
                                        <<input_rows[i], input_rows[i + 1]>>, args.step_seconds))
                            ELSE <<>>])
                 \o <<WpTuple(input_rows[Len(input_rows)])>>

C9_Witness ==
    /\ Resampled
    /\ exc = "None"
    /\ Len(input_rows) = 3
    /\ seg_dt(1) > 0
    /\ seg_dt(2) <= 0
    /\ Len(ret) = 1 + seg_count(1)

\* s is an arrangement of the rows in raw, in non-decreasing order of Time
RowsTimeSorted(s, raw) ==
    /\ SameBag(s, raw)
    /\ \A i \in 1..(Len(s) - 1) : s[i].Time <= s[i + 1].Time

\* the same for (time, latitude, longitude, altitude) tuples
TuplesTimeSorted(s, raw) ==
    /\ SameBag(s, raw)
    /\ \A i \in 1..(Len(s) - 1) : s[i][1] <= s[i + 1][1]

\* C10: for stepSeconds <= 0 the resampler returns the input waypoints, same
\* length, values and order; and with interp_step_sec <= 0 the orchestrator
\* hands the spatial finder the raw waypoints of each drone, sorted by time.
C10_NonPositiveStepIdentity ==
    /\ (op = "interpolate_trajectory" /\ args.step_seconds <= 0) =>
          /\ exc = "None"
          /\ Len(ret) = Len(input_rows)
          /\ \A i \in 1..Len(ret) :
                ret[i] = <<input_rows[i].Time, input_rows[i].Latitude,
                           input_rows[i].Longitude, input_rows[i].Altitude>>
    /\ (op = "check_primary_mission_conflicts" /\ args.interp_step_sec <= 0) =>
          /\ \A id \in DroneIds \ {args.primary_id} :
                RowsTimeSorted(rows_of(other_waypoints, id), rows_of(df, id))
          /\ \A i \in 1..Len(other_waypoints) :
                other_waypoints[i].DroneID # args.primary_id
          /\ rows_of(df, args.primary_id) # <<>> =>
                TuplesTimeSorted(primary_waypoints,
                    [i \in 1..Len(rows_of(df, args.primary_id)) |->
                        WpTuple(rows_of(df, args.primary_id)[i])])

C10_Witness ==
    /\ op = "interpolate_trajectory"
    /\ args.step_seconds <= 0
    /\ exc = "None"
    /\ Len(input_rows) >= 2
    /\ input_rows[1].Time > input_rows[2].Time
    /\ ret[1] # ret[2]

(***************************************************************************)
(* Properties of the temporal finder.                                      *)
(***************************************************************************)
\* horizontal^2 + altitudeDiff^2 of a primary tuple p and an other row o
SquaredDistance(p, o) ==
    LET h == safe_geodesic_meters(p[2], p[3], o.Latitude, o.Longitude)
    IN  h * h + (p[4] - o.Altitude) * (p[4] - o.Altitude)

\* the pairs (i, j) of raw rows the temporal finder has to report
TemporalPairs ==
    {q \in (1..Len(df)) \X (1..Len(df)) :
        /\ df[q[1]].DroneID = args.primary_id
        /\ df[q[2]].DroneID # args.primary_id
        /\ df[q[2]].Time >= df[q[1]].Time - args.time_window_sec
        /\ df[q[2]].Time <= df[q[1]].Time + args.time_window_sec
        /\ SquaredDistance(WpTuple(df[q[1]]), df[q[2]])
              < args.min_distance_meters * args.min_distance_meters}

\* the (primary, other) sides of a record
Sides(rec) ==
    <<rec[1], rec[2]>>

PairSides(q) ==
    <<WpTuple(df[q[1]]), df[q[2]]>>

\* C1: temporal_check_df returns one record per pair (p, o) of a raw primary
\* row and a raw row of another drone with o.time in [p.time - window,
\* p.time + window] and 3D distance < minDistanceMeters, counted with
\* multiplicity, and nothing else; the other side is the row o, DroneID included.
C1_TemporalRecordsExact ==
    op = "temporal_check_df" =>
        LET pairs == TemporalPairs
        IN  /\ exc = "None"
            /\ Len(ret) = Cardinality(pairs)
            /\ \A q \in pairs :
                  Cardinality({i \in DOMAIN ret : Sides(ret[i]) = PairSides(q)})
                    = Cardinality({r \in pairs : PairSides(r) = PairSides(q)})
            /\ \A i \in DOMAIN ret :
                  LET d2 == SquaredDistance(ret[i][1], ret[i][2])
                  IN  /\ \E q \in pairs : Sides(ret[i]) = PairSides(q)
                      /\ ret[i][3] * ret[i][3] <= d2
                      /\ d2 < (ret[i][3] + 1) * (ret[i][3] + 1)

C1_Witness ==
    /\ op = "temporal_check_df"
    /\ Len(df) = 3
    /\ Len(ret) = 2
    /\ ret[1] = ret[2]
    /\ ret[1][2].DroneID # args.primary_id
    /\ ret[1][3] > 0

\* C4: the window is closed: an other-drone row whose time differs from the
\* primary row's by at most timeWindowSeconds is a candidate (reported when it
\* is closer than minDistanceMeters), one that differs by more is never
\* reported; two co-located drones 10 s apart give no record with window 1.0
\* and exactly one with window 15.
C4_ClosedTimeWindow ==
    op = "temporal_check_df" =>
        /\ \A i \in DOMAIN ret :
              Abs(ret[i][2].Time - ret[i][1][1]) <= args.time_window_sec
        /\ \A i, j \in 1..Len(df) :
              ( /\ df[i].DroneID = args.primary_id
                /\ df[j].DroneID # args.primary_id
                /\ Abs(df[j].Time - df[i].Time) <= args.time_window_sec
                /\ SquaredDistance(WpTuple(df[i]), df[j])
                      < args.min_distance_meters * args.min_distance_meters )
              => \E k \in DOMAIN ret : Sides(ret[k]) = <<WpTuple(df[i]), df[j]>>
        /\ ( /\ Len(df) = 2
             /\ {df[1].DroneID, df[2].DroneID} \ {args.primary_id} # {}
             /\ args.primary_id \in {df[1].DroneID, df[2].DroneID}
             /\ WpTuple(df[1])[2] = WpTuple(df[2])[2]
             /\ WpTuple(df[1])[3] = WpTuple(df[2])[3]
             /\ WpTuple(df[1])[4] = WpTuple(df[2])[4]
             /\ Abs(df[1].Time - df[2].Time) = 10000 )
           => /\ args.time_window_sec = 1000 => Len(ret) = 0
              /\ args.time_window_sec = 15000 => Len(ret) = 1

C4_Witness ==
    /\ op = "temporal_check_df"
    /\ Len(df) = 3
    /\ Len(ret) = 1
    /\ Abs(ret[1][2].Time - ret[1][1][1]) = args.time_window_sec
    /\ \E j \in 1..Len(df) :
          /\ df[j].DroneID # args.primary_id
          /\ Abs(df[j].Time - ret[1][1][1]) > args.time_window_sec
          /\ SquaredDistance(ret[1][1], df[j]) = 0

(***************************************************************************)
(* Properties of the spatial finder.                                       *)
(***************************************************************************)
\* C2: the spatial finder drops no true conflict: every primary waypoint p and
\* other waypoint o with |p.time - o.time| <= 0.1 s and 3D distance below
\* minDistanceMeters yield a record (p, o), the other side being the row o.
C2_NoTrueConflictDropped ==
    op = "spatial_check_with_index" =>
        \A i \in DOMAIN primary_waypoints : \A j \in DOMAIN other_waypoints :
            ( /\ Abs(primary_waypoints[i][1] - other_waypoints[j].Time) <= TIME_TOLERANCE_SEC
              /\ SquaredDistance(primary_waypoints[i], other_waypoints[j])
                    < args.min_distance_meters * args.min_distance_meters )
            => \E k \in DOMAIN ret :
                  Sides(ret[k]) = <<primary_waypoints[i], other_waypoints[j]>>

\* C3: every record of the spatial finder has |primary_time - other_time| <= 0.1 s
\* and 0 <= distance < minDistanceMeters, the distance being the 3D distance of
\* its pair; a pair at minDistanceMeters or farther is never emitted.
C3_SpatialRecordsSound ==
    op = "spatial_check_with_index" =>
        \A k \in DOMAIN ret :
            /\ Abs(ret[k][1][1] - ret[k][2].Time) <= TIME_TOLERANCE_SEC
            /\ 0 <= ret[k][3]
            /\ ret[k][3] < args.min_distance_meters
            /\ SquaredDistance(ret[k][1], ret[k][2])
                  < args.min_distance_meters * args.min_distance_meters
            /\ \E i \in DOMAIN primary_waypoints : ret[k][1] = primary_waypoints[i]
            /\ \E j \in DOMAIN other_waypoints : ret[k][2] = other_waypoints[j]

\* the radius query returns other waypoint j for primary waypoint i
RadiusQueryReturns(i, j) ==
    LET index == build_spatial_index(other_waypoints)
        p     == project(primary_waypoints[i][2], primary_waypoints[i][3],
                         cos_ref_of(index.lat_ref))
    IN  \E c \in DOMAIN query_ball_point(index.tree, p, args.min_distance_meters) :
            query_ball_point(index.tree, p, args.min_distance_meters)[c] = j

C3_Witness ==
    /\ op = "spatial_check_with_index"
    /\ Len(ret) = 1
    /\ \E i \in DOMAIN primary_waypoints : \E j \in DOMAIN other_waypoints :
          /\ RadiusQueryReturns(i, j)
          /\ Abs(primary_waypoints[i][1] - other_waypoints[j].Time) <= TIME_TOLERANCE_SEC
          /\ SquaredDistance(primary_waypoints[i], other_waypoints[j])
                >= args.min_distance_meters * args.min_distance_meters
          /\ Sides(ret[1]) # <<primary_waypoints[i], other_waypoints[j]>>

(***************************************************************************)
(* Properties of the orchestrator and of the query interface.              *)
(***************************************************************************)
EngineCalled ==
    op \in {"check_primary_mission_conflicts", "query_mission_status"}

\* C5: when primaryId has no rows in the dataset, evaluate returns
\* (empty, empty) without raising, whatever the other drones and the
\* thresholds are, and query_mission_status reports "clear".
C5_AbsentPrimaryIsClear ==
    (EngineCalled /\ rows_of(df, args.primary_id) = <<>>) =>
        /\ exc = "None"
        /\ op = "check_primary_mission_conflicts" => ret = <<<<>>, <<>>>>
        /\ op = "query_mission_status" =>
              /\ ret.status = "clear"
              /\ ret.spatial_conflicts = <<>>
              /\ ret.temporal_conflicts = <<>>

C5_Witness ==
    /\ op = "query_mission_status"
    /\ rows_of(df, args.primary_id) = <<>>
    /\ Len(df) = 3
    /\ args.interp_step_sec > 0
    /\ args.time_window_sec > 0
    /\ df[1].DroneID # df[2].DroneID
    /\ WpTuple(df[1]) = WpTuple(df[2])
    /\ exc = "None"
    /\ ret.status = "clear"

\* C6: the status of query_mission_status is "clear" exactly when both
\* conflict lists are empty and "conflict detected" otherwise, never a third
\* value, and the two lists of the result are those evaluate returns.
C6_StatusMatchesLists ==
    (op = "query_mission_status" /\ exc = "None") =>
        /\ ret.status \in {"clear", "conflict detected"}
        /\ ret.status = "clear" <=>
              (ret.spatial_conflicts = <<>> /\ ret.temporal_conflicts = <<>>)
        /\ \E ord \in sorted_groups(df, DroneIds) :
              \E r \in {check_primary_mission_conflicts(df, ord, args.primary_id,
                            args.min_distance_meters, args.time_window_sec,
                            args.interp_step_sec)} :
                  /\ r.exc = "None"
                  /\ ret.spatial_conflicts = r.spatial_conflicts
                  /\ ret.temporal_conflicts = r.temporal_conflicts

C6_Witness ==
    /\ op = "query_mission_status"
    /\ exc = "None"
    /\ ret.status = "conflict detected"
    /\ ret.spatial_conflicts # <<>>
    /\ ret.temporal_conflicts = <<>>

(***************************************************************************)
(* Short trajectories and the size of the resampler's output.              *)
(***************************************************************************)
\* C11: for stepSeconds > 0 a trajectory of fewer than 2 waypoints comes back
\* unchanged: one waypoint gives exactly that waypoint, and no waypoint gives
\* an empty result, not an error.
C11_ShortTrajectoryUnchanged ==
    (op = "interpolate_trajectory" /\ args.step_seconds > 0 /\ Len(input_rows) < 2) =>
        /\ exc = "None"
        /\ ret = [i \in 1..Len(input_rows) |-> WpTuple(input_rows[i])]

\* C12: the output of the resampler is never empty when its input is not,
\* for every stepSeconds and for increasing, duplicate or decreasing
\* timestamps.
C12_NonEmptyOutput ==
    (op = "interpolate_trajectory" /\ input_rows # <<>>) =>
        /\ exc = "None"
        /\ ret # <<>>

C12_Witness ==
    /\ Resampled
    /\ Len(input_rows) = 3
    /\ seg_dt(1) = 0
    /\ seg_dt(2) < 0
    /\ ret = <<WpTuple(input_rows[3])>>

(***************************************************************************)
(* Properties of the orchestrator across thresholds.                       *)
(***************************************************************************)
\* every element of a occurs in b at least as often as in a
SubBag(a, b) ==
    \A i \in DOMAIN a : Count(a, a[i]) <= Count(b, a[i])

\* C13: on a fixed dataset with primaryId, timeWindowSec and interpStepSec
\* fixed, a larger minDistanceMeters never gives fewer spatial or temporal
\* conflicts, and every record reported at the smaller threshold is reported
\* at the larger one.
C13_MonotoneInThreshold ==
    (op = "check_primary_mission_conflicts" /\ exc = "None") =>
        \A m2 \in EngineMinDistances : m2 >= args.min_distance_meters =>
            LET s2 == spatial_check_with_index(primary_waypoints, other_waypoints, m2)
                t2 == temporal_check_df(df, args.primary_id, args.time_window_sec, m2)
            IN  /\ Len(ret[1]) <= Len(s2)
                /\ SubBag(ret[1], s2)
                /\ Len(ret[2]) <= Len(t2)
                /\ SubBag(ret[2], t2)

C13_Witness ==
    /\ op = "check_primary_mission_conflicts"
    /\ exc = "None"
    /\ args.min_distance_meters = 10000
    /\ ret[1] # <<>>
    /\ ret[2] # <<>>
    /\ Len(spatial_check_with_index(primary_waypoints, other_waypoints, 12000)) > Len(ret[1])
    /\ Len(temporal_check_df(df, args.primary_id, args.time_window_sec, 12000)) > Len(ret[2])

(***************************************************************************)
(* The temporal finder decides on 3D distance.                             *)
(***************************************************************************)
\* row j of another drone lies in the time window of primary row i
InWindowPair(i, j) ==
    /\ df[i].DroneID = args.primary_id
    /\ df[j].DroneID # args.primary_id
    /\ df[j].Time >= df[i].Time - args.time_window_sec
    /\ df[j].Time <= df[i].Time + args.time_window_sec

Reported(i, j) ==
    \E k \in DOMAIN ret : Sides(ret[k]) = <<WpTuple(df[i]), df[j]>>

\* C14: in temporal_check_df a pair inside the time window whose altitude
\* difference alone is >= minDistanceMeters is never reported, however close
\* horizontally; a pair inside the window at the same latitude and longitude
\* whose altitude difference is < minDistanceMeters is reported, with the
\* other drone's DroneID.
C14_AltitudeCounts ==
    op = "temporal_check_df" =>
        \A i, j \in DOMAIN df : InWindowPair(i, j) =>
            /\ Abs(df[i].Altitude - df[j].Altitude) >= args.min_distance_meters
                  => ~Reported(i, j)
            /\ (/\ df[i].Latitude = df[j].Latitude
                /\ df[i].Longitude = df[j].Longitude
                /\ Abs(df[i].Altitude - df[j].Altitude) < args.min_distance_meters)
                  => \E k \in DOMAIN ret :
                        /\ Sides(ret[k]) = <<WpTuple(df[i]), df[j]>>
                        /\ ret[k][2].DroneID = df[j].DroneID

C14_Witness ==
    /\ op = "temporal_check_df"
    /\ \E i, j \in DOMAIN df :
          /\ InWindowPair(i, j)
          /\ Abs(df[i].Altitude - df[j].Altitude) = args.min_distance_meters
          /\ df[i].Latitude # df[j].Latitude
          /\ safe_geodesic_meters(df[i].Latitude, df[i].Longitude,
                                  df[j].Latitude, df[j].Longitude) < args.min_distance_meters
          /\ ~Reported(i, j)
    /\ \E i, j \in DOMAIN df :
          /\ InWindowPair(i, j)
          /\ df[i].Latitude = df[j].Latitude
          /\ df[i].Longitude = df[j].Longitude
          /\ df[i].Altitude # df[j].Altitude
          /\ Reported(i, j)

(***************************************************************************)
(* Results of the orchestrator on particular datasets.                     *)
(***************************************************************************)
\* the spatial and the temporal list the last engine call returned
spatial_list ==
    IF op = "query_mission_status" THEN ret.spatial_conflicts ELSE ret[1]

temporal_list ==
    IF op = "query_mission_status" THEN ret.temporal_conflicts ELSE ret[2]

\* C15: when the dataset holds rows of the primary drone only, evaluate
\* returns (empty, empty) for any thresholds: the spatial finder returns an
\* empty list, no index built, when the other-waypoint list is empty, and
\* the temporal finder returns an empty list when the primary set or the
\* other set is empty.
C15_OnlyPrimaryIsEmpty ==
    (EngineCalled /\ exc = "None") =>
        /\ (df # <<>> /\ rows_not_of(df, args.primary_id) = <<>>) =>
              (spatial_list = <<>> /\ temporal_list = <<>>)
        /\ other_waypoints = <<>> =>
              (build_spatial_index(other_waypoints).tree = <<>> /\ spatial_list = <<>>)
        /\ (rows_of(df, args.primary_id) = <<>> \/ rows_not_of(df, args.primary_id) = <<>>) =>
              temporal_list = <<>>

C15_Witness ==
    /\ op = "check_primary_mission_conflicts"
    /\ exc = "None"
    /\ Len(df) = 3
    /\ rows_not_of(df, args.primary_id) = <<>>
    /\ args.interp_step_sec > 0
    /\ args.time_window_sec > 0
    /\ Len(primary_waypoints) = 3
    /\ primary_waypoints[2][1] = 500
    /\ other_waypoints = <<>>
    /\ ret = <<<<>>, <<>>>>

\* the dataset is two drones with one waypoint each, at the same position
\* and time, and the last call is evaluate for one of them with
\* minDistanceMeters = 10 and the default window (1 s) and step (0.5 s)
IdenticalPairCall ==
    /\ op = "check_primary_mission_conflicts"
    /\ Len(df) = 2
    /\ df[1].DroneID # df[2].DroneID
    /\ WpTuple(df[1]) = WpTuple(df[2])
    /\ args.primary_id \in {df[1].DroneID, df[2].DroneID}
    /\ args.min_distance_meters = 10000
    /\ args.time_window_sec = 1000
    /\ args.interp_step_sec = 500

\* C16: for two drones with a single waypoint each, identical in latitude,
\* longitude, altitude and timestamp, evaluate with minDistanceMeters = 10
\* returns exactly one spatial and exactly one temporal conflict, each with
\* distance 0.
C16_IdenticalPairOneEach ==
    IdenticalPairCall =>
        /\ exc = "None"
        /\ Len(ret[1]) = 1
        /\ ret[1][1][3] = 0
        /\ Len(ret[2]) = 1
        /\ ret[2][1][3] = 0

C16_Witness ==
    /\ IdenticalPairCall
    /\ exc = "None"
    /\ df[1].Altitude = 3000
    /\ ret[1][1][2].DroneID # args.primary_id
    /\ ret[2][1][2].DroneID # args.primary_id

\* C17: the two lists of evaluate are computed independently and are not
\* merged or deduplicated: the temporal list is that of temporal_check_df on
\* the raw dataset, whatever interp_step_sec is; the spatial list is that of
\* spatial_check_with_index on the waypoints collected for the step,
\* whatever time_window_sec is; and one encounter may be in both lists.
C17_ListsIndependent ==
    (op = "check_primary_mission_conflicts" /\ exc = "None") =>
        /\ ret[2] = temporal_check_df(df, args.primary_id, args.time_window_sec,
                                      args.min_distance_meters)
        /\ ret[1] = IF rows_of(df, args.primary_id) = <<>> THEN <<>>
                    ELSE spatial_check_with_index(primary_waypoints, other_waypoints,
                                                  args.min_distance_meters)
        /\ \E ord \in sorted_groups(df, DroneIds) :
              /\ other_waypoints
                    = collect_other_waypoints(df, ord, args.primary_id, args.interp_step_sec)
              /\ rows_of(df, args.primary_id) # <<>> =>
                    primary_waypoints
                      = collect_primary_waypoints(group_sorted(df, ord, args.primary_id),
                                                  args.interp_step_sec)

C17_Witness ==
    /\ op = "check_primary_mission_conflicts"
    /\ exc = "None"
    /\ args.interp_step_sec > 0
    /\ Len(ret[1]) < Len(ret[2])
    /\ \E i \in DOMAIN ret[1], k \in DOMAIN ret[2] : ret[1][i] = ret[2][k]

(***************************************************************************)
(* Properties of sequences of calls on one dataset.                        *)
(***************************************************************************)
\* C18: no core call mutates the dataset passed to it: after any sequence of
\* calls its rows, their order and their values are those before the first
\* call.
C18_DatasetNeverMutated ==
    [][df' = df]_vars

C18_Witness ==
    /\ calls >= 2
    /\ EngineCalled
    /\ Len(df) >= 2
    /\ df[1].DroneID = df[2].DroneID
    /\ df[1].Time > df[2].Time
    /\ primary_waypoints # <<>>
    /\ primary_waypoints[1][1] = df[2].Time

C20_DistanceIsTotal ==
    op = "safe_geodesic_meters" =>
        /\ exc = "None"
        /\ ret >= 0
        /\ geodesic_raises(args.lat1, args.lat2) =>
              ret = haversine_meters(args.lat1, args.lon1, args.lat2, args.lon2)

C20_Witness ==
    /\ op = "safe_geodesic_meters"
    /\ exc = "None"
    /\ args.lat1 = max_valid_lat
    /\ args.lat2 > max_valid_lat
    /\ ret > 0
    /\ ret = haversine_meters(args.lat1, args.lon1, args.lat2, args.lon2)
    /\ ret # geodesic_meters(args.lat1, args.lon1, args.lat2, args.lon2)

(***************************************************************************)
(* Properties of the command line tool.                                    *)
(***************************************************************************)
\* C21: once main() has tried to load a workbook that cannot be loaded (it
\* is unreadable or lacks a required column), the run has ended with exit
\* code 2 and a ValueError, no frame was loaded, no prompt was shown and
\* query_mission_status was never called.
C21_LoadFailureBlocksEvaluation ==
    LET file == cli.excel_file
        unloadable == \/ ~file.readable
                      \/ \E c \in required_cols : \A h \in file.columns : h[1] # c
    IN  (cli.pc # "load" /\ unloadable) =>
        /\ cli.pc = "exited"
        /\ cli.exit_code = 2
        /\ exc = "ValueError"
        /\ cli.prompts = 0
        /\ calls = 0
        /\ op = "load_waypoints_from_excel"
        /\ df = <<>> /\ ret = <<>>

C21_Witness ==
    /\ cli.pc = "exited"
    /\ cli.exit_code = 2
    /\ cli.excel_file.readable
    /\ "Altitude" \notin strip_columns(cli.excel_file.columns)

(***************************************************************************)
(* Properties of resampling inside the orchestrator.                       *)
(***************************************************************************)
\* the rows are in strictly increasing time order
StrictlyIncreasing(rows) ==
    \A i \in 1..(Len(rows) - 1) : rows[i].Time < rows[i + 1].Time

\* the linearly interpolated position, at instant t, on the segment from w0 to w1
PositionAt(w0, w1, t) ==
    Row(w0.DroneID, t,
        Lerp(w0.Latitude, w1.Latitude, t - w0.Time, w1.Time - w0.Time),
        Lerp(w0.Longitude, w1.Longitude, t - w0.Time, w1.Time - w0.Time),
        Lerp(w0.Altitude, w1.Altitude, t - w0.Time, w1.Time - w0.Time))

\* instants at which the interpolated positions are compared
NearMissInstants ==
    {125 * k : k \in 1..7}

\* at some instant strictly between logged waypoints of both trajectories the
\* interpolated positions are closer than min_distance_meters
NearMissBetweenWaypoints(P, O, min_distance_meters) ==
    \E t \in NearMissInstants : \E i \in 1..(Len(P) - 1) : \E j \in 1..(Len(O) - 1) :
        /\ P[i].Time < t /\ t < P[i + 1].Time
        /\ O[j].Time < t /\ t < O[j + 1].Time
        /\ LET p == PositionAt(P[i], P[i + 1], t)
           IN  dist_3d(p.Latitude, p.Longitude, p.Altitude, PositionAt(O[j], O[j + 1], t))
                   < min_distance_meters

\* C22: after evaluate with interp_step_sec > 0 on time-ordered trajectories,
\* a drone whose interpolated position comes within minDistanceMeters of the
\* primary's at an instant between logged waypoints of both has at least one
\* record in the spatial list.
C22_NearMissCaught ==
    (op = "check_primary_mission_conflicts" /\ args.interp_step_sec > 0 /\ exc = "None") =>
        \A o \in DroneIds \ {args.primary_id} :
            LET P == rows_of(df, args.primary_id)
                O == rows_of(df, o)
            IN  ( /\ StrictlyIncreasing(P)
                  /\ StrictlyIncreasing(O)
                  /\ NearMissBetweenWaypoints(P, O, args.min_distance_meters) )
                => \E k \in DOMAIN ret[1] : ret[1][k][2].DroneID = o

(***************************************************************************)
(* Order and multiplicity of the spatial list.                             *)
(***************************************************************************)
\* the positions of the other-waypoint list that pass the radius query, the
\* time filter and the distance test against primary sample p_wp
SpatialMatches(p_wp, index) ==
    LET p    == project(p_wp[2], p_wp[3], cos_ref_of(index.lat_ref))
        cand == query_ball_point(index.tree, p, args.min_distance_meters)
    IN  {j \in {cand[c] : c \in DOMAIN cand} :
            /\ Abs(p_wp[1] - other_waypoints[j].Time) <= TIME_TOLERANCE_SEC
            /\ SquaredDistance(p_wp, other_waypoints[j])
                  < args.min_distance_meters * args.min_distance_meters}

\* C23: the spatial list is the records of the first primary sample, then those
\* of the second, and so on; the block of a sample holds one record for every
\* matching position of the other-waypoint list, so two identical other rows
\* that match give two records.
C23_PrimaryOrderNoDedup ==
    op = "spatial_check_with_index" =>
        LET n     == Len(primary_waypoints)
            index == build_spatial_index(other_waypoints)
            M     == [i \in 1..n |->
                        IF other_waypoints = <<>> THEN {}
                        ELSE SpatialMatches(primary_waypoints[i], index)]
            off[i \in 1..(n + 1)] == IF i = 1 THEN 0 ELSE off[i - 1] + Cardinality(M[i - 1])
        IN  /\ Len(ret) = off[n + 1]
            /\ \A i \in 1..n :
                 LET block == SubSeq(ret, off[i] + 1, off[i + 1])
                 IN  /\ \A k \in DOMAIN block : block[k][1] = primary_waypoints[i]
                     /\ \A j \in M[i] :
                            Cardinality({k \in DOMAIN block : block[k][2] = other_waypoints[j]})
                              = Cardinality({h \in M[i] : other_waypoints[h] = other_waypoints[j]})

C23_Witness ==
    /\ op = "spatial_check_with_index"
    /\ Len(primary_waypoints) = 1
    /\ Len(other_waypoints) = 2
    /\ other_waypoints[1] = other_waypoints[2]
    /\ Len(ret) = 2
    /\ ret[1] = ret[2]
    /\ ret[1][3] > 0

(***************************************************************************)
(* Totality of the orchestrator.                                           *)
(***************************************************************************)
\* C24: evaluate on a dataset in which primaryId has rows raises nothing and
\* returns a pair of lists, whatever the order of the rows in time, with
\* duplicate timestamps and with drones of a single waypoint.
C24_EvaluateIsTotal ==
    (op = "check_primary_mission_conflicts" /\ rows_of(df, args.primary_id) # <<>>) =>
        /\ exc = "None"
        /\ Len(ret) = 2
        /\ DOMAIN ret[1] = 1..Len(ret[1])
        /\ DOMAIN ret[2] = 1..Len(ret[2])

C24_Witness ==
    /\ op = "check_primary_mission_conflicts"
    /\ args.interp_step_sec > 0
    /\ Len(df) = 3
    /\ df[1].DroneID = args.primary_id
    /\ df[2].DroneID # args.primary_id
    /\ df[3].DroneID = args.primary_id
    /\ df[1].Time > df[3].Time
    /\ exc = "None"
    /\ Len(primary_waypoints) > 1

(***************************************************************************)
(* Density and containment of the resampled trajectory.                    *)
(***************************************************************************)
\* C25: for a trajectory with strictly increasing timestamps and stepSeconds > 0
\* the output timestamps are strictly increasing and two consecutive output
\* samples are never more than stepSeconds apart.
C25_EvenlyDense ==
    (Resampled /\ StrictlyIncreasing(input_rows)) =>
        \A k \in 1..(Len(ret) - 1) :
            /\ ret[k][1] < ret[k + 1][1]
            /\ ret[k + 1][1] - ret[k][1] <= args.step_seconds

C25_Witness ==
    /\ Resampled
    /\ StrictlyIncreasing(input_rows)
    /\ Len(input_rows) = 3
    /\ args.step_seconds = 500
    /\ Len(ret) = 4
    /\ ret[2][1] - ret[1][1] = 350
    /\ ret[4][1] - ret[3][1] = 500

\* C26: for a trajectory with strictly increasing timestamps and stepSeconds > 0
\* every input waypoint occurs unchanged in the output, and the occurrences
\* stand in the input order.
C26_WaypointsPreserved ==
    ( /\ op = "interpolate_trajectory"
      /\ args.step_seconds > 0
      /\ input_rows # <<>>
      /\ StrictlyIncreasing(input_rows) ) =>
        /\ \A i \in DOMAIN input_rows : \E k \in DOMAIN ret : ret[k] = WpTuple(input_rows[i])
        /\ \A i \in DOMAIN input_rows : \A h \in DOMAIN input_rows :
             \A k \in DOMAIN ret : \A m \in DOMAIN ret :
                ( /\ i < h
                  /\ ret[k] = WpTuple(input_rows[i])
                  /\ ret[m] = WpTuple(input_rows[h]) ) => k < m

C26_Witness ==
    /\ Resampled
    /\ StrictlyIncreasing(input_rows)
    /\ Len(input_rows) = 3
    /\ Len(ret) = 4
    /\ ret[1] = WpTuple(input_rows[1])
    /\ ret[2] \notin {WpTuple(input_rows[i]) : i \in 1..3}
    /\ ret[3] = WpTuple(input_rows[2])
    /\ ret[4] = WpTuple(input_rows[3])
    /\ input_rows[1].Latitude # input_rows[2].Latitude

(***************************************************************************)
(* Relations between the two lists of the orchestrator.                    *)
(***************************************************************************)
\* C27: in both lists evaluate returns, the other side of every record belongs
\* to a drone that is not the primary and that has rows in the dataset.
C27_NoSelfConflict ==
    (op = "check_primary_mission_conflicts" /\ exc = "None") =>
        \A l \in 1..2 : \A k \in DOMAIN ret[l] :
            /\ ret[l][k][2].DroneID # args.primary_id
            /\ \E i \in DOMAIN df : df[i].DroneID = ret[l][k][2].DroneID

C27_Witness ==
    /\ op = "check_primary_mission_conflicts"
    /\ exc = "None"
    /\ Len(df) = 3
    /\ Len(rows_of(df, args.primary_id)) = 2
    /\ rows_of(df, args.primary_id)[1] = rows_of(df, args.primary_id)[2]
    /\ Len(ret[1]) = 2
    /\ Len(ret[2]) = 2

\* C28: after evaluate with interp_step_sec <= 0 and time_window_sec >= 0.1 s,
\* every record of the spatial list (primary waypoint, other waypoint,
\* distance) occurs in the temporal list at least as often, so the spatial
\* list is never the longer one.
C28_SpatialWithinTemporal ==
    ( /\ op = "check_primary_mission_conflicts"
      /\ exc = "None"
      /\ args.interp_step_sec <= 0
      /\ args.time_window_sec >= TIME_TOLERANCE_SEC ) =>
        /\ SubBag(ret[1], ret[2])
        /\ Len(ret[1]) <= Len(ret[2])

C28_Witness ==
    /\ op = "check_primary_mission_conflicts"
    /\ args.interp_step_sec <= 0
    /\ args.time_window_sec = TIME_TOLERANCE_SEC
    /\ Len(ret[1]) = 1
    /\ Len(ret[2]) = 1
    /\ Abs(ret[1][1][1][1] - ret[1][1][2].Time) = TIME_TOLERANCE_SEC
    /\ \E i \in DOMAIN df : /\ df[i].DroneID # args.primary_id
                            /\ df[i].Time = 1000

(***************************************************************************)
(* The temporal finder as a function of its window.                        *)
(***************************************************************************)
\* C29: with dataset, primaryId and minDistanceMeters fixed, every record the
\* temporal finder reports at one window is reported, at least as often, at
\* every larger window, and at a negative window it reports nothing.
C29_MonotoneInWindow ==
    op = "temporal_check_df" =>
        /\ \A w \in {x \in TemporalWindows : x > args.time_window_sec} :
              SubBag(ret, temporal_check_df(df, args.primary_id, w, args.min_distance_meters))
        /\ args.time_window_sec < 0 => ret = <<>>

C29_Witness ==
    /\ op = "temporal_check_df"
    /\ args.time_window_sec = 1000
    /\ Len(ret) = 1
    /\ Len(temporal_check_df(df, args.primary_id, 15000, args.min_distance_meters)) = 2
    /\ temporal_check_df(df, args.primary_id, -1000, args.min_distance_meters) = <<>>

(***************************************************************************)
(* Containment of the samples in their segment.                            *)
(***************************************************************************)
\* C30: every sample emitted for a segment (w_i, w_i+1) with dt > 0 has its time
\* in [w_i.time, w_i+1.time) and its latitude, longitude and altitude between
\* the values of w_i and w_i+1, ends included.
C30_SamplesInsideSegment ==
    Resampled =>
        \A i \in 1..(Len(input_rows) - 1) : \A k \in 0..(seg_count(i) - 1) :
            LET s  == ret[seg_offset(i) + k + 1]
                w0 == WpTuple(input_rows[i])
                w1 == WpTuple(input_rows[i + 1])
            IN  /\ w0[1] <= s[1] /\ s[1] < w1[1]
                /\ \A f \in 2..4 :
                     \/ w0[f] <= s[f] /\ s[f] <= w1[f]
                     \/ w1[f] <= s[f] /\ s[f] <= w0[f]

C30_Witness ==
    /\ Resampled
    /\ seg_dt(1) > 0
    /\ seg_count(1) = 2
    /\ input_rows[1].Latitude > input_rows[2].Latitude
    /\ ret[2][1] > input_rows[1].Time
    /\ ret[2][2] < input_rows[1].Latitude
    /\ ret[2][2] > input_rows[2].Latitude

====
